---- MODULE Spec2Model ----
(***************************************************************************)
(* Model of the quota segment (src/core/segments/quota.rs): the disk       *)
(* cache with TTL, the credential loader, the fetch and the pipeline       *)
(* get_quota_data that collect runs.                                       *)
(*                                                                         *)
(* Currency amounts (f64 in the source) are modelled in tenths: the        *)
(* integer 2500 stands for 250.0.  Files are sequences of characters;      *)
(* the fixed key names of the cache record are one token each, every       *)
(* value is written digit by digit, insignificant whitespace of the        *)
(* pretty printer is left out.                                             *)
(***************************************************************************)
EXTENDS Integers, Sequences, FiniteSets, TLC

\* ---------------------------------------------------------------- bounds
MaxTime == 2
MaxTtl == 2
WordBits == 4

\* two statusline processes: enough for every race on the one cache file
Procs == {"p1", "p2"}
\* u64 arithmetic is modelled modulo 2^WordBits
Modulus == 2 ^ WordBits
U64Max == Modulus - 1
Times == 0..MaxTime
Ttls == (0..MaxTtl) \cup {U64Max}

\* ---------------------------------------------------------------- options
None == <<>>
Some(x) == <<x>>
Unwrap(o) == o[1]

\* ---------------------------------------------------------------- data
QuotaData(rem, lim, cost, cnt, can, healthy) ==
    [remaining_usd |-> rem, daily_limit_usd |-> lim, total_cost_usd |-> cost,
     request_count |-> cnt, can_make_request |-> can, api_healthy |-> healthy]

QuotaDataDefault == QuotaData(0, 0, 0, 0, FALSE, FALSE)

QuotaCache(at, d) == [fetched_at |-> at, data |-> d]

\* what the usage endpoint can answer (usage.* of ApiResponse)
ApiResponse(rem, lim, cost, cnt, can) ==
    [remaining_usd |-> rem, daily_limit_usd |-> lim, total_cost_usd |-> cost,
     request_count |-> cnt, can_make_request |-> can]

ApiResponses ==
    { ApiResponse(2500, 10000, 7500, 42, TRUE),
      ApiResponse(12, 100, 88, 7, FALSE) }

\* the server's answer: a decodable body, or any failure
\* (transport error, timeout, non-success status, undecodable body)
ServerAnswers == { Some(r) : r \in ApiResponses } \cup { None }

\* ---------------------------------------------------------------- text
Digit == {"0", "1", "2", "3", "4", "5", "6", "7", "8", "9"}
DigitChar(d) == CASE d = 0 -> "0" [] d = 1 -> "1" [] d = 2 -> "2" [] d = 3 -> "3"
                  [] d = 4 -> "4" [] d = 5 -> "5" [] d = 6 -> "6" [] d = 7 -> "7"
                  [] d = 8 -> "8" [] d = 9 -> "9"
DigitVal(c) == CASE c = "0" -> 0 [] c = "1" -> 1 [] c = "2" -> 2 [] c = "3" -> 3
                 [] c = "4" -> 4 [] c = "5" -> 5 [] c = "6" -> 6 [] c = "7" -> 7
                 [] c = "8" -> 8 [] c = "9" -> 9

RECURSIVE Digits(_)
Digits(n) == IF n < 10 THEN <<DigitChar(n)>>
             ELSE Digits(n \div 10) \o <<DigitChar(n % 10)>>

\* an f64 amount in tenths, printed as <whole>.<tenth>
F64Text(t) == Digits(t \div 10) \o <<".">> \o <<DigitChar(t % 10)>>

TrueText == <<"t", "r", "u", "e">>
FalseText == <<"f", "a", "l", "s", "e">>
BoolText(b) == IF b THEN TrueText ELSE FalseText

\* serde_json::to_string_pretty(&QuotaCache)
to_string_pretty(c) ==
    <<"{", "fetched_at:">> \o Digits(c.fetched_at)
    \o <<",", "data:", "{", "remaining_usd:">> \o F64Text(c.data.remaining_usd)
    \o <<",", "daily_limit_usd:">> \o F64Text(c.data.daily_limit_usd)
    \o <<",", "total_cost_usd:">> \o F64Text(c.data.total_cost_usd)
    \o <<",", "request_count:">> \o Digits(c.data.request_count)
    \o <<",", "can_make_request:">> \o BoolText(c.data.can_make_request)
    \o <<",", "api_healthy:">> \o BoolText(c.data.api_healthy)
    \o <<"}", "}">>

\* ---- parsing: a position is an index into the text, 0 means "failed"
Expect(s, i, toks) ==
    IF i = 0 THEN 0
    ELSE IF i + Len(toks) - 1 <= Len(s) /\ SubSeq(s, i, i + Len(toks) - 1) = toks
         THEN i + Len(toks)
         ELSE 0

RECURSIVE ScanDigits(_, _)
ScanDigits(s, i) == IF i <= Len(s) /\ s[i] \in Digit THEN ScanDigits(s, i + 1) ELSE i

RECURSIVE NatVal(_, _, _)
\* value of the digits s[i..j-1]
NatVal(s, i, j) == IF j <= i THEN 0 ELSE NatVal(s, i, j - 1) * 10 + DigitVal(s[j - 1])

\* end of an unsigned integer starting at i (no leading zeros, as JSON requires)
IntEnd(s, i) ==
    IF i = 0 THEN 0
    ELSE LET j == ScanDigits(s, i)
         IN IF j = i THEN 0
            ELSE IF s[i] = "0" /\ j > i + 1 THEN 0
            ELSE j

\* end of <whole>.<tenth> starting at i
F64End(s, i) ==
    LET j == IntEnd(s, i)
        k == Expect(s, j, <<".">>)
    IN IF k = 0 \/ k > Len(s) THEN 0
       ELSE IF s[k] \in Digit THEN k + 1 ELSE 0

F64Val(s, i) ==
    LET j == IntEnd(s, i) IN NatVal(s, i, j) * 10 + DigitVal(s[j + 1])

BoolEnd(s, i) ==
    IF Expect(s, i, TrueText) # 0 THEN Expect(s, i, TrueText) ELSE Expect(s, i, FalseText)

BoolVal(s, i) == Expect(s, i, TrueText) # 0

\* serde_json::from_str::<QuotaCache>(&content).ok()
from_str(s) ==
    LET a1 == Expect(s, 1, <<"{", "fetched_at:">>)
        a2 == IntEnd(s, a1)
        b1 == Expect(s, a2, <<",", "data:", "{", "remaining_usd:">>)
        b2 == F64End(s, b1)
        c1 == Expect(s, b2, <<",", "daily_limit_usd:">>)
        c2 == F64End(s, c1)
        d1 == Expect(s, c2, <<",", "total_cost_usd:">>)
        d2 == F64End(s, d1)
        e1 == Expect(s, d2, <<",", "request_count:">>)
        e2 == IntEnd(s, e1)
        f1 == Expect(s, e2, <<",", "can_make_request:">>)
        f2 == BoolEnd(s, f1)
        g1 == Expect(s, f2, <<",", "api_healthy:">>)
        g2 == BoolEnd(s, g1)
        h  == Expect(s, g2, <<"}", "}">>)
    IN IF h = 0 \/ h # Len(s) + 1 THEN None
       ELSE IF NatVal(s, a1, a2) > U64Max THEN None
       ELSE Some(QuotaCache(NatVal(s, a1, a2),
                            QuotaData(F64Val(s, b1), F64Val(s, c1), F64Val(s, d1),
                                      NatVal(s, e1, e2), BoolVal(s, f1), BoolVal(s, g1))))

\* ---------------------------------------------------------------- files
\* a file is None (does not exist) or Some(text)
Whitespace == {" ", "\n"}

RECURSIVE TrimStart(_)
TrimStart(s) == IF s # <<>> /\ Head(s) \in Whitespace THEN TrimStart(Tail(s)) ELSE s

RECURSIVE TrimEnd(_)
TrimEnd(s) == IF s # <<>> /\ s[Len(s)] \in Whitespace
              THEN TrimEnd(SubSeq(s, 1, Len(s) - 1)) ELSE s

Trim(s) == TrimEnd(TrimStart(s))

\* a loader that trims but lets an empty credential through
load_tokenNoFilter(file) ==
    IF file = None THEN None ELSE Some(Trim(Unwrap(file)))

load_token(file) ==
    IF file = None THEN None
    ELSE IF Trim(Unwrap(file)) = <<>> THEN None
    ELSE Some(Trim(Unwrap(file)))

\* a loader that answers the default record for a file it cannot read
load_cacheOrDefault(file) ==
    IF file = None THEN None
    ELSE IF from_str(Unwrap(file)) = None THEN Some(QuotaCache(0, QuotaDataDefault))
    ELSE from_str(Unwrap(file))

load_cache(file) ==
    IF file = None THEN None ELSE from_str(Unwrap(file))

\* File::create: the file exists and is empty afterwards
FileCreate(file) == Some(<<>>)

\* write_all at offset 0 of a handle opened by File::create: bytes of the
\* file beyond the written range are left as they are
FileWriteAll(file, content) ==
    LET old == IF file = None THEN <<>> ELSE Unwrap(file)
    IN Some(content \o SubSeq(old, Len(content) + 1, Len(old)))

\* ---------------------------------------------------------------- fetch
\* a fetch that answers the default value when the request fails
fetch_quotaOrDefault(answer) ==
    IF answer = None THEN Some(QuotaDataDefault)
    ELSE LET r == Unwrap(answer)
         IN Some(QuotaData(r.remaining_usd, r.daily_limit_usd, r.total_cost_usd,
                           r.request_count, r.can_make_request, TRUE))

\* a fetch that takes the health flag from can_make_request
fetch_quotaHealthFromCan(answer) ==
    IF answer = None THEN None
    ELSE LET r == Unwrap(answer)
         IN Some(QuotaData(r.remaining_usd, r.daily_limit_usd, r.total_cost_usd,
                           r.request_count, r.can_make_request, r.can_make_request))

\* fetch_quota: None on any failure, else the usage fields with api_healthy set
fetch_quota(answer) ==
    IF answer = None THEN None
    ELSE LET r == Unwrap(answer)
         IN Some(QuotaData(r.remaining_usd, r.daily_limit_usd, r.total_cost_usd,
                           r.request_count, r.can_make_request, TRUE))

\* ---------------------------------------------------------------- freshness
\* now - cache.fetched_at on u64 with overflow checks off: wraps
WrappingSub(a, b) == (a - b + Modulus) % Modulus

\* with overflow checks on, the subtraction panics when it would go below 0
SubOverflows(a, b) == b > a

\* a cache check that never finds the record fresh
IsFreshNever(n, fetched_at, ttl) == FALSE

\* a freshness test that counts the boundary as fresh
IsFreshInclusive(n, fetched_at, ttl) == WrappingSub(n, fetched_at) <= ttl

\* a freshness test with the comparison turned around
IsFreshReversed(n, fetched_at, ttl) == WrappingSub(n, fetched_at) > ttl

\* the test of line 149
IsFresh(n, fetched_at, ttl) == WrappingSub(n, fetched_at) < ttl

\* a record that loses the time of the fetch
NewCacheRecordNoTime(n, d) == QuotaCache(0, d)

\* a record whose time went through a narrowing cast
NewCacheRecordNarrow(n, d) == QuotaCache(n % 2, d)

\* the record get_quota_data builds after a successful fetch
NewCacheRecord(n, d) == QuotaCache(n, d)

\* no fallback at all
StaleFallbackNever(file) == None

\* a fallback that invents a value when there is no record
StaleFallbackOrDefault(file) ==
    IF load_cache(file) = None THEN Some(QuotaDataDefault)
    ELSE Some(Unwrap(load_cache(file)).data)

\* line 168
StaleFallback(file) ==
    IF load_cache(file) = None THEN None ELSE Some(Unwrap(load_cache(file)).data)

\* where control goes when load_token() is None (the ? of line 155)
AfterNoToken == "ret_no_token"

\* a retry loop
AfterFetchFailedRetry == "fetch"

\* where control goes when fetch_quota is None (falls out of the if-let, line 165)
AfterFetchFailed == "fallback"

\* ---------------------------------------------------------------- state
VARIABLES
    clock,            \* the system clock, seconds since the epoch
    overflow_checks,  \* whether the build panics on integer overflow
    cache_ttl,        \* config.cache_ttl
    cacheFile,        \* quota_cache.json
    tokenFile,        \* quota_token
    pc,               \* per process: position in collect / get_quota_data
    now,              \* per process: the local now of get_quota_data
    cache,            \* per process: what load_cache() returned at line 148
    token,            \* per process: what load_token() returned
    answer,           \* per process: what the server answered to the request
    data,             \* per process: what fetch_quota returned
    result,           \* per process: what get_quota_data returned
    net_calls,        \* per process: requests issued in this invocation
    lastWrite,        \* the text passed to the latest write of the cache file
    lastWriteAt,      \* the clock at the latest write of the cache file
    arg,              \* the input of a function applied on its own
    out               \* what that function returned

vars == <<clock, overflow_checks, cache_ttl, cacheFile, tokenFile, pc, now, cache,
          token, answer, data, result, net_calls, lastWrite, lastWriteAt, arg, out>>

\* what no step of the pipeline changes
env == <<overflow_checks, cache_ttl, tokenFile, arg, out>>
locals == <<now, cache, token, answer, data, result, net_calls>>

Returned == {"ret_hit", "ret_no_token", "ret_fetched", "ret_fallback", "panicked"}

\* records another build of the tool (or the user) may have left in the cache
StoredData ==
    { Unwrap(fetch_quota(Some(r))) : r \in ApiResponses }
    \cup { QuotaData(500, 1000, 500, 3, TRUE, FALSE) }

CorruptTexts ==
    { <<>>, <<"x">>,
      SubSeq(to_string_pretty(QuotaCache(0, QuotaDataDefault)), 1, 5) }

CacheFiles ==
    { None } \cup { Some(t) : t \in CorruptTexts }
    \cup { Some(to_string_pretty(QuotaCache(t, d))) : t \in Times, d \in StoredData }

TokenFiles ==
    { None, Some(<<>>), Some(<<" ", "\n">>), Some(<<"k">>), Some(<<" ", "k", "\n">>) }

Init ==
    /\ clock = 0
    /\ overflow_checks \in BOOLEAN
    /\ cache_ttl \in Ttls
    /\ cacheFile \in CacheFiles
    /\ tokenFile \in TokenFiles
    /\ pc = [p \in Procs |-> "idle"]
    /\ now = [p \in Procs |-> 0]
    /\ cache = [p \in Procs |-> None]
    /\ token = [p \in Procs |-> None]
    /\ answer = [p \in Procs |-> None]
    /\ data = [p \in Procs |-> None]
    /\ result = [p \in Procs |-> None]
    /\ net_calls = [p \in Procs |-> 0]
    /\ lastWrite = None
    /\ lastWriteAt = 0
    /\ arg = None
    /\ out = None

\* ---------------------------------------------------------------- actions
\* time passes
Tick ==
    /\ clock < MaxTime
    /\ clock' = clock + 1
    /\ UNCHANGED <<env, cacheFile, pc, locals, lastWrite, lastWriteAt>>

\* collect is entered: get_quota_data reads the clock (line 145)
Collect(p) ==
    /\ pc[p] = "idle"
    /\ pc' = [pc EXCEPT ![p] = "check_cache"]
    /\ now' = [now EXCEPT ![p] = clock]
    /\ UNCHANGED <<clock, env, cacheFile, cache, token, answer, data, result, net_calls,
                   lastWrite, lastWriteAt>>

\* the same, in a process that runs while no other invocation is under way
CollectAlone(p) ==
    /\ \A q \in Procs : pc[q] = "idle"
    /\ Collect(p)

\* lines 148-152
CheckCache(p) ==
    /\ pc[p] = "check_cache"
    /\ LET c == load_cache(cacheFile)
       IN /\ cache' = [cache EXCEPT ![p] = c]
          /\ IF c = None
             THEN /\ pc' = [pc EXCEPT ![p] = "load_token"]
                  /\ UNCHANGED result
             ELSE IF overflow_checks /\ SubOverflows(now[p], Unwrap(c).fetched_at)
             THEN /\ pc' = [pc EXCEPT ![p] = "panicked"]
                  /\ UNCHANGED result
             ELSE IF IsFresh(now[p], Unwrap(c).fetched_at, cache_ttl)
             THEN /\ pc' = [pc EXCEPT ![p] = "ret_hit"]
                  /\ result' = [result EXCEPT ![p] = Some(Unwrap(c).data)]
             ELSE /\ pc' = [pc EXCEPT ![p] = "load_token"]
                  /\ UNCHANGED result
    /\ UNCHANGED <<clock, env, cacheFile, now, token, answer, data, net_calls, lastWrite, lastWriteAt>>

\* line 155
LoadToken(p) ==
    /\ pc[p] = "load_token"
    /\ token' = [token EXCEPT ![p] = load_token(tokenFile)]
    /\ pc' = [pc EXCEPT ![p] = IF load_token(tokenFile) = None THEN AfterNoToken ELSE "fetch"]
    /\ UNCHANGED <<clock, env, cacheFile, now, cache, answer, data, result, net_calls,
                   lastWrite, lastWriteAt>>

\* line 158: one request; the server answers or the request fails
Fetch(p) ==
    /\ pc[p] = "fetch"
    /\ \E a \in ServerAnswers :
          /\ answer' = [answer EXCEPT ![p] = a]
          /\ data' = [data EXCEPT ![p] = fetch_quota(a)]
          /\ pc' = [pc EXCEPT ![p] = IF fetch_quota(a) = None THEN AfterFetchFailed
                                     ELSE "save_create"]
    /\ net_calls' = [net_calls EXCEPT ![p] = @ + 1]
    /\ UNCHANGED <<clock, env, cacheFile, now, cache, token, result, lastWrite, lastWriteAt>>

\* line 163, save_cache, first half of fs::write: the file is created or truncated
SaveCreate(p) ==
    /\ pc[p] = "save_create"
    /\ cacheFile' = FileCreate(cacheFile)
    /\ pc' = [pc EXCEPT ![p] = "save_write"]
    /\ UNCHANGED <<clock, env, locals, lastWrite, lastWriteAt>>

\* second half of fs::write: the text is written; then line 164
SaveWrite(p) ==
    /\ pc[p] = "save_write"
    /\ LET content == to_string_pretty(NewCacheRecord(now[p], Unwrap(data[p])))
       IN /\ cacheFile' = FileWriteAll(cacheFile, content)
          /\ lastWrite' = Some(content)
          /\ lastWriteAt' = clock
    /\ result' = [result EXCEPT ![p] = data[p]]
    /\ pc' = [pc EXCEPT ![p] = "ret_fetched"]
    /\ UNCHANGED <<clock, env, now, cache, token, answer, data, net_calls>>

\* line 168
Fallback(p) ==
    /\ pc[p] = "fallback"
    /\ result' = [result EXCEPT ![p] = StaleFallback(cacheFile)]
    /\ pc' = [pc EXCEPT ![p] = "ret_fallback"]
    /\ UNCHANGED <<clock, env, cacheFile, now, cache, token, answer, data, net_calls,
                   lastWrite, lastWriteAt>>

\* the process ends (its memory is gone); the next statusline refresh starts a new one
Exit(p) ==
    /\ pc[p] \in Returned
    /\ pc' = [pc EXCEPT ![p] = "idle"]
    /\ now' = [now EXCEPT ![p] = 0]
    /\ cache' = [cache EXCEPT ![p] = None]
    /\ token' = [token EXCEPT ![p] = None]
    /\ answer' = [answer EXCEPT ![p] = None]
    /\ data' = [data EXCEPT ![p] = None]
    /\ result' = [result EXCEPT ![p] = None]
    /\ net_calls' = [net_calls EXCEPT ![p] = 0]
    /\ UNCHANGED <<clock, env, cacheFile, lastWrite, lastWriteAt>>

Step(p) ==
    \/ CheckCache(p)
    \/ LoadToken(p)
    \/ Fetch(p)
    \/ SaveCreate(p)
    \/ SaveWrite(p)
    \/ Fallback(p)
    \/ Exit(p)

\* the intended use: one invocation at a time
Next ==
    \/ Tick
    \/ \E p \in Procs : CollectAlone(p)
    \/ \E p \in Procs : Step(p)

Spec == Init /\ [][Next]_vars

\* several statusline processes at once
NextConcurrent ==
    \/ Tick
    \/ \E p \in Procs : Collect(p)
    \/ \E p \in Procs : Step(p)

\* the races need a credential and a cache that is missing or stale; no record
\* of these runs is ahead of the clock, so the overflow behaviour plays no part
InitConcurrent ==
    /\ Init
    /\ tokenFile = Some(<<"k">>)
    /\ overflow_checks = FALSE
    /\ cache_ttl \in 0..MaxTtl
    /\ cacheFile \in { None, Some(to_string_pretty(QuotaCache(0, QuotaData(500, 1000, 500, 3, TRUE, FALSE)))) }

SpecConcurrent == InitConcurrent /\ [][NextConcurrent]_vars

\* the tool starts with no cache file
InitEmptyCache ==
    /\ Init
    /\ cacheFile = None

SpecEmptyCache == InitEmptyCache /\ [][Next]_vars

\* ---------------------------------------------------------------- presenter
\* an f64 that came out of a division: a quotient of two integers, or one of
\* the values a division by zero yields
Quotient(n, d) == [kind |-> "num", num |-> n, den |-> d]
NaN == [kind |-> "nan", num |-> 0, den |-> 1]
Infinity == [kind |-> "inf", num |-> 0, den |-> 1]

\* a / b on f64, for a >= 0 and b >= 0
F64Div(a, b) ==
    IF b # 0 THEN Quotient(a, b)
    ELSE IF a = 0 THEN NaN
    ELSE Infinity

\* x > h/100 on f64: false for NaN, true for +inf
F64Gt(x, h) ==
    CASE x.kind = "nan" -> FALSE
      [] x.kind = "inf" -> TRUE
      [] OTHER -> x.num * 100 > h * x.den

\* a / b rounded to the nearest integer, ties to even
RoundHalfEven(a, b) ==
    LET q == a \div b
        r == a % b
    IN IF 2 * r > b THEN q + 1
       ELSE IF 2 * r = b THEN q + (q % 2)
       ELSE q

\* format_usd that writes the middle range with one decimal too
format_usdAlwaysDecimal(n) ==
    IF n >= 10000 THEN F64Text(RoundHalfEven(n, 1000)) \o <<"k">>
    ELSE F64Text(n)

\* format_usd, n in tenths: {:.1}k of n/1000, {:.0}, {:.1}
format_usd(n) ==
    IF n >= 10000 THEN F64Text(RoundHalfEven(n, 1000)) \o <<"k">>
    ELSE IF n >= 1000 THEN Digits(RoundHalfEven(n, 10))
    ELSE F64Text(n)

get_battery_icon(remaining_pct) ==
    IF F64Gt(remaining_pct, 95) THEN "battery-100"
    ELSE IF F64Gt(remaining_pct, 85) THEN "battery-90"
    ELSE IF F64Gt(remaining_pct, 75) THEN "battery-80"
    ELSE IF F64Gt(remaining_pct, 65) THEN "battery-70"
    ELSE IF F64Gt(remaining_pct, 55) THEN "battery-60"
    ELSE IF F64Gt(remaining_pct, 45) THEN "battery-50"
    ELSE IF F64Gt(remaining_pct, 35) THEN "battery-40"
    ELSE IF F64Gt(remaining_pct, 25) THEN "battery-30"
    ELSE IF F64Gt(remaining_pct, 15) THEN "battery-20"
    ELSE IF F64Gt(remaining_pct, 5) THEN "battery-10"
    ELSE "battery-alert"

\* a palette with two neighbouring entries exchanged
get_color_codeSwapped(remaining_pct) ==
    IF F64Gt(remaining_pct, 70) THEN "38;5;10"
    ELSE IF F64Gt(remaining_pct, 60) THEN "38;5;11"
    ELSE IF F64Gt(remaining_pct, 40) THEN "38;5;14"
    ELSE IF F64Gt(remaining_pct, 30) THEN "38;5;3"
    ELSE IF F64Gt(remaining_pct, 10) THEN "38;5;9"
    ELSE "38;5;1"

get_color_code(remaining_pct) ==
    IF F64Gt(remaining_pct, 90) THEN "38;5;10"
    ELSE IF F64Gt(remaining_pct, 80) THEN "38;5;10"
    ELSE IF F64Gt(remaining_pct, 70) THEN "38;5;10"
    ELSE IF F64Gt(remaining_pct, 60) THEN "38;5;14"
    ELSE IF F64Gt(remaining_pct, 50) THEN "38;5;11"
    ELSE IF F64Gt(remaining_pct, 40) THEN "38;5;11"
    ELSE IF F64Gt(remaining_pct, 30) THEN "38;5;3"
    ELSE IF F64Gt(remaining_pct, 20) THEN "38;5;9"
    ELSE IF F64Gt(remaining_pct, 10) THEN "38;5;9"
    ELSE "38;5;1"

\* f64::to_string of an amount in tenths
F64Display(t) == IF t % 10 = 0 THEN Digits(t \div 10) ELSE F64Text(t)

\* format!("{:.1}", remaining_pct * 100.0)
PctText(x) ==
    CASE x.kind = "nan" -> <<"N", "a", "N">>
      [] x.kind = "inf" -> <<"i", "n", "f">>
      [] OTHER -> F64Text(RoundHalfEven(x.num * 1000, x.den))

\* the body of collect after get_quota_data returned Some(data), lines 260-306;
\* remaining_pct is the local of line 260
SegmentData(d, config) ==
    LET remaining_pct == F64Div(d.remaining_usd, d.daily_limit_usd)
        health == IF d.api_healthy THEN "health-ok" ELSE "health-bad"
        battery == get_battery_icon(remaining_pct)
        color == get_color_code(remaining_pct)
        block == IF ~d.can_make_request THEN <<"blocked">> ELSE <<>>
    IN [ remaining_pct |-> remaining_pct,
         primary |-> block \o <<"ESC[37m", "$">> \o format_usd(d.remaining_usd) \o <<"/">>
                     \o format_usd(d.daily_limit_usd) \o <<"ESC[0m", " ", health>>,
         secondary |-> IF config.show_requests
                       THEN Digits(d.request_count) \o <<"times">> ELSE <<>>,
         metadata |-> [ dynamic_icon |-> <<"ESC[", color, "m", battery, "ESC[0m">>,
                        remaining_usd |-> F64Display(d.remaining_usd),
                        daily_limit_usd |-> F64Display(d.daily_limit_usd),
                        total_cost_usd |-> F64Display(d.total_cost_usd),
                        request_count |-> Digits(d.request_count),
                        remaining_pct |-> PctText(remaining_pct),
                        can_make_request |-> BoolText(d.can_make_request),
                        api_healthy |-> BoolText(d.api_healthy) ] ]

\* ---------------------------------------------------------------- functions on their own
\* the pipeline at rest, while one function is applied to an input
PipelineAtRest ==
    /\ clock = 0
    /\ overflow_checks = FALSE
    /\ cache_ttl = 0
    /\ cacheFile = None
    /\ tokenFile = None
    /\ pc = [p \in Procs |-> "idle"]
    /\ now = [p \in Procs |-> 0]
    /\ cache = [p \in Procs |-> None]
    /\ token = [p \in Procs |-> None]
    /\ answer = [p \in Procs |-> None]
    /\ data = [p \in Procs |-> None]
    /\ result = [p \in Procs |-> None]
    /\ net_calls = [p \in Procs |-> 0]
    /\ lastWrite = None
    /\ lastWriteAt = 0
    /\ out = None

pipeline == <<clock, overflow_checks, cache_ttl, cacheFile, tokenFile, pc, locals,
              lastWrite, lastWriteAt>>

\* ---- the two ramps, on fractions p/100 and q/100
MaxPct == 102
PctInputs == (0 - 2)..MaxPct

InitRamps ==
    /\ PipelineAtRest
    /\ arg \in { Some(<<p, q>>) : p \in PctInputs, q \in PctInputs }

ApplyRamps ==
    /\ out = None
    /\ LET p == Quotient(Unwrap(arg)[1], 100)
           q == Quotient(Unwrap(arg)[2], 100)
       IN out' = Some([icon_p |-> get_battery_icon(p), icon_q |-> get_battery_icon(q),
                       color_p |-> get_color_code(p), color_q |-> get_color_code(q)])
    /\ UNCHANGED <<pipeline, arg>>

SpecRamps == InitRamps /\ [][ApplyRamps]_vars

\* ---- the presenter, on a value and a configuration
RenderAmounts == {0, 12, 500, 2500, 9995}
RenderLimits == {0, 100, 10000}
\* warning_threshold in hundredths
RenderThresholds == {0, 15, 50}

InitRender ==
    /\ PipelineAtRest
    /\ arg \in { Some([data |-> QuotaData(r, l, 0, 7, can, healthy),
                       config |-> [show_requests |-> show, warning_threshold |-> w]]) :
                 r \in RenderAmounts, l \in RenderLimits, can \in BOOLEAN,
                 healthy \in BOOLEAN, show \in BOOLEAN, w \in RenderThresholds }

ApplyRender ==
    /\ out = None
    /\ out' = Some(SegmentData(Unwrap(arg).data, Unwrap(arg).config))
    /\ UNCHANGED <<pipeline, arg>>

SpecRender == InitRender /\ [][ApplyRender]_vars

\* ---- format_usd, on amounts in tenths
MaxAmount == 10010
FormatInputs == (0..MaxAmount) \cup {10499, 10501, 123450}

InitFormat ==
    /\ PipelineAtRest
    /\ arg \in { Some(n) : n \in FormatInputs }

ApplyFormat ==
    /\ out = None
    /\ out' = Some(format_usd(Unwrap(arg)))
    /\ UNCHANGED <<pipeline, arg>>

SpecFormat == InitFormat /\ [][ApplyFormat]_vars

\* ---- the configuration
\* warning_threshold in hundredths
QuotaConfigDefault ==
    [api_url |-> "https://relay.nf.video/v1/usage", cache_ttl |-> 30, timeout |-> 5,
     show_requests |-> FALSE, warning_threshold |-> 15]

\* quota.toml: missing (None), or a text that is well-formed TOML or not; of a
\* well-formed text the table of the keys it sets
SettingsTables ==
    [api_url : {None, Some("https://relay.nf.video/v1/usage"), Some("https://example.test/usage")},
     cache_ttl : {None, Some(30), Some(300)},
     timeout : {None, Some(5), Some(10)},
     show_requests : {None, Some(FALSE), Some(TRUE)},
     warning_threshold : {None, Some(15), Some(25)}]

EmptyTable ==
    [api_url |-> None, cache_ttl |-> None, timeout |-> None, show_requests |-> None,
     warning_threshold |-> None]

SettingsFiles ==
    { None, Some([wellformed |-> FALSE, table |-> EmptyTable]) }
    \cup { Some([wellformed |-> TRUE, table |-> t]) : t \in SettingsTables }

\* toml::from_str::<QuotaConfig>: every field of the struct is required
toml_from_str(text) ==
    IF ~text.wellformed THEN None
    ELSE LET t == text.table
         IN IF \/ t.api_url = None \/ t.cache_ttl = None \/ t.timeout = None
               \/ t.show_requests = None \/ t.warning_threshold = None
            THEN None
            ELSE Some([api_url |-> Unwrap(t.api_url), cache_ttl |-> Unwrap(t.cache_ttl),
                       timeout |-> Unwrap(t.timeout),
                       show_requests |-> Unwrap(t.show_requests),
                       warning_threshold |-> Unwrap(t.warning_threshold)])

load_quota_config(file) ==
    IF file = None THEN QuotaConfigDefault
    ELSE IF toml_from_str(Unwrap(file)) = None THEN QuotaConfigDefault
    ELSE Unwrap(toml_from_str(Unwrap(file)))

InitConfig ==
    /\ PipelineAtRest
    /\ arg \in { Some(f) : f \in SettingsFiles }

ApplyConfig ==
    /\ out = None
    /\ out' = Some(load_quota_config(Unwrap(arg)))
    /\ UNCHANGED <<pipeline, arg>>

SpecConfig == InitConfig /\ [][ApplyConfig]_vars

\* ---- get_quota_data as one run without interruption, lines 144-169
get_quota_data(file, tokens, served, n, ttl, checks) ==
    LET c == load_cache(file)
    IN IF c # None /\ checks /\ SubOverflows(n, Unwrap(c).fetched_at)
       THEN [panicked |-> TRUE, result |-> None, net_calls |-> 0, file |-> file]
       ELSE IF c # None /\ IsFresh(n, Unwrap(c).fetched_at, ttl)
       THEN [panicked |-> FALSE, result |-> Some(Unwrap(c).data), net_calls |-> 0,
             file |-> file]
       ELSE IF load_token(tokens) = None
       THEN [panicked |-> FALSE, result |-> None, net_calls |-> 0, file |-> file]
       ELSE IF fetch_quota(served) # None
       THEN [panicked |-> FALSE, result |-> fetch_quota(served), net_calls |-> 1,
             file |-> FileWriteAll(FileCreate(file),
                         to_string_pretty(NewCacheRecord(n, Unwrap(fetch_quota(served)))))]
       ELSE [panicked |-> FALSE, result |-> StaleFallback(file), net_calls |-> 1,
             file |-> file]

InitCorrupt ==
    /\ PipelineAtRest
    /\ arg \in { Some([text |-> x, tokens |-> k, served |-> a, now |-> n, ttl |-> t,
                       checks |-> c]) :
                 x \in CorruptTexts, k \in TokenFiles, a \in ServerAnswers,
                 n \in Times, t \in Ttls, c \in BOOLEAN }

\* the same invocation, once on the corrupt file and once on no file
ApplyCorrupt ==
    /\ out = None
    /\ LET a == Unwrap(arg)
       IN out' = Some([corrupt |-> get_quota_data(Some(a.text), a.tokens, a.served,
                                                  a.now, a.ttl, a.checks),
                       missing |-> get_quota_data(None, a.tokens, a.served,
                                                  a.now, a.ttl, a.checks)])
    /\ UNCHANGED <<pipeline, arg>>

SpecCorrupt == InitCorrupt /\ [][ApplyCorrupt]_vars

\* ================================================================ claims
\* the invocation of p has passed the cache check of lines 148-152
Checked(p) == pc[p] \notin {"idle", "check_cache"}

\* the request of p's invocation was made and failed
FetchFailed(p) == net_calls[p] > 0 /\ answer[p] = None

\* the record p loaded at line 148 (when there is one)
Loaded(p) == Unwrap(cache[p])

\* C1: when the cache is absent or stale and there is no credential, no
\* request is made and collect returns the data of the cache record whenever
\* the cache file holds a deserializable record, whatever its age.
C1_NoCredentialFallsBackToStale ==
    \A p \in Procs :
        (pc[p] \in Returned \ {"ret_hit", "panicked"} /\ load_token(tokenFile) = None)
        => /\ net_calls[p] = 0
           /\ load_cache(cacheFile) # None
                => result[p] = Some(Unwrap(load_cache(cacheFile)).data)

\* C2: when the request was made and failed while a deserializable cache
\* record exists, collect returns that record's data, unchanged, and never
\* absent; the record is the one the invocation found at its start and the
\* one the file still holds.
C2_StaleFallback ==
    \A p \in Procs :
        (pc[p] \in Returned /\ FetchFailed(p) /\ cache[p] # None)
        => /\ result[p] = Some(Loaded(p).data)
           /\ load_cache(cacheFile) = cache[p]

C2_Witness ==
    \E p \in Procs :
        /\ pc[p] = "ret_fallback"
        /\ FetchFailed(p)
        /\ cache[p] # None
        /\ now[p] - Loaded(p).fetched_at >= cache_ttl
        /\ result[p] = Some(Loaded(p).data)

\* C3: when the cache record is present and fresh (fetched_at <= now and
\* now - fetched_at < cache_ttl), the invocation returns exactly the cached
\* data and makes no request, whatever the token file holds.
C3_CacheHit ==
    \A p \in Procs :
        (/\ Checked(p)
         /\ cache[p] # None
         /\ Loaded(p).fetched_at <= now[p]
         /\ now[p] - Loaded(p).fetched_at < cache_ttl)
        => /\ pc[p] = "ret_hit"
           /\ result[p] = Some(Loaded(p).data)
           /\ net_calls[p] = 0

C3_Witness ==
    \E p \in Procs :
        /\ pc[p] = "ret_hit"
        /\ load_token(tokenFile) # None
        /\ Loaded(p).fetched_at < now[p]
        /\ now[p] - Loaded(p).fetched_at < cache_ttl
        /\ result[p] = Some(Loaded(p).data)
        /\ net_calls[p] = 0

\* C4: for a record with fetched_at <= now, the record is served without a
\* fetch if and only if now - fetched_at < cache_ttl; at the boundary
\* now - fetched_at = cache_ttl (and always when cache_ttl = 0) the
\* invocation goes on to the credential and the fetch.
C4_FreshIffElapsedBelowTtl ==
    \A p \in Procs :
        (Checked(p) /\ cache[p] # None /\ Loaded(p).fetched_at <= now[p])
        => /\ pc[p] = "ret_hit" <=> now[p] - Loaded(p).fetched_at < cache_ttl
           /\ now[p] - Loaded(p).fetched_at >= cache_ttl
                => pc[p] \in {"load_token", "fetch", "save_create", "save_write",
                              "fallback", "ret_no_token", "ret_fetched", "ret_fallback"}

C4_Witness ==
    \E p \in Procs :
        /\ pc[p] = "fetch"
        /\ cache[p] # None
        /\ cache_ttl > 0
        /\ Loaded(p).fetched_at <= now[p]
        /\ now[p] - Loaded(p).fetched_at = cache_ttl

\* C5: when the record's fetched_at is greater than now, the invocation does
\* not abort and treats the record as fresh: it returns the cached data
\* without a fetch.
C5_ClockSkewIsFresh ==
    \A p \in Procs :
        (Checked(p) /\ cache[p] # None /\ Loaded(p).fetched_at > now[p])
        => /\ pc[p] = "ret_hit"
           /\ result[p] = Some(Loaded(p).data)
           /\ net_calls[p] = 0

C7_TotalMiss ==
    \A p \in Procs :
        (/\ pc[p] \in Returned
         /\ cache[p] = None
         /\ load_token(tokenFile) = None \/ FetchFailed(p))
        => /\ result[p] = None
           /\ load_cache(cacheFile) = None

C7_Witness ==
    \E p \in Procs :
        /\ pc[p] = "ret_fallback"
        /\ cache[p] = None
        /\ FetchFailed(p)
        /\ result[p] = None

\* C8: no invocation makes more than one request.
C8_AtMostOneNetworkCall ==
    \A p \in Procs : net_calls[p] <= 1

C8_Witness ==
    \E p \in Procs :
        /\ pc[p] = "ret_fallback"
        /\ answer[p] = None
        /\ net_calls[p] = 1

\* C9: the cache file changes only in the save of an invocation whose fetch
\* succeeded; an invocation that returns on any other path leaves the file
\* holding what it held when the invocation loaded it; the file is never
\* removed and a record found at the start is never left missing.
C9_CacheWrittenOnlyAfterFetch ==
    [][ /\ cacheFile' # cacheFile
            => \E p \in Procs : /\ pc[p] \in {"save_create", "save_write"}
                                /\ pc'[p] # pc[p]
                                /\ answer[p] # None
        /\ \A p \in Procs :
              pc'[p] \in Returned \ {"ret_fetched"} => load_cache(cacheFile') = cache'[p]
        /\ \A p \in Procs :
              (pc'[p] \in Returned /\ cache'[p] # None) => load_cache(cacheFile') # None
        /\ cacheFile # None => cacheFile' # None
      ]_vars

C9_Witness ==
    \E p \in Procs :
        /\ pc[p] = "ret_fallback"
        /\ lastWrite # None
        /\ cacheFile = lastWrite

\* C10: when several processes run collect at once, then once all of them
\* have finished the cache file holds exactly the text of the latest write,
\* and no invocation returns values that are not those of one whole record.
C10_LastWriterWins ==
    /\ ((\A p \in Procs : pc[p] \in Returned \cup {"idle"}) /\ lastWrite # None)
          => cacheFile = lastWrite
    /\ \A p \in Procs : result[p] # None => Unwrap(result[p]) \in StoredData

\* C16: a request is made only by an invocation that loaded a credential
\* that is not empty: the token file exists and holds a character that is
\* not whitespace; a missing, empty or whitespace-only file means no request.
C16_FetchOnlyWithCredential ==
    \A p \in Procs :
        (pc[p] = "fetch" \/ net_calls[p] > 0)
        => /\ tokenFile # None
           /\ \E i \in 1..Len(Unwrap(tokenFile)) : Unwrap(tokenFile)[i] \notin Whitespace
           /\ token[p] # None
           /\ Unwrap(token[p]) # <<>>

C16_Witness ==
    \E p \in Procs :
        /\ pc[p] = "ret_no_token"
        /\ tokenFile = Some(<<" ", "\n">>)
        /\ net_calls[p] = 0

\* the fetched_at of a text passed to a write of the cache file
StoredAt(w) == Unwrap(from_str(Unwrap(w))).fetched_at

C19_FetchedAtNeverDecreases ==
    [][ lastWrite # None => StoredAt(lastWrite') >= StoredAt(lastWrite) ]_vars

\* C19, amended: a write by an invocation that read the clock no earlier
\* than the moment of the previous write (every invocation that does not
\* overlap the previous writer) never stores a lower fetched_at.
C19_NoDecreaseWithoutOverlap ==
    [][ \A p \in Procs :
          (/\ pc[p] = "save_write"
           /\ pc'[p] = "ret_fetched"
           /\ lastWrite # None
           /\ now[p] >= lastWriteAt)
          => StoredAt(lastWrite') >= StoredAt(lastWrite)
      ]_vars

C19_Witness ==
    \E p \in Procs :
        /\ pc[p] = "save_write"
        /\ \A q \in Procs \ {p} : pc[q] = "idle"
        /\ lastWrite # None
        /\ now[p] >= lastWriteAt
        /\ now[p] > StoredAt(lastWrite)

\* C20: starting without a cache file, every value fetch_quota produces,
\* every record the cache file holds and every value collect reports has
\* api_healthy = TRUE, also after failed fetches answered from the cache.
C20_AlwaysHealthy ==
    /\ \A p \in Procs : data[p] # None => Unwrap(data[p]).api_healthy
    /\ load_cache(cacheFile) # None => Unwrap(load_cache(cacheFile)).data.api_healthy
    /\ \A p \in Procs : result[p] # None => Unwrap(result[p]).api_healthy

C20_Witness ==
    \E p \in Procs :
        /\ pc[p] = "ret_fallback"
        /\ FetchFailed(p)
        /\ result[p] # None
        /\ Unwrap(result[p]).api_healthy

Range(f) == { f[i] : i \in DOMAIN f }

\* C11: whenever collect produces output for a non-zero total, the primary
\* text includes a warning marker if and only if remaining / total is below
\* config.warning_threshold.
C11_WarningMarkerBelowThreshold ==
    out # None
    => LET d == Unwrap(arg).data
           w == Unwrap(arg).config.warning_threshold
       IN d.daily_limit_usd > 0
          => ("warning" \in Range(Unwrap(out).primary)
                <=> d.remaining_usd * 100 < w * d.daily_limit_usd)

\* the order of the icon buckets, emptiest first
IconRank(i) ==
    CASE i = "battery-alert" -> 0 [] i = "battery-10" -> 1 [] i = "battery-20" -> 2
      [] i = "battery-30" -> 3 [] i = "battery-40" -> 4 [] i = "battery-50" -> 5
      [] i = "battery-60" -> 6 [] i = "battery-70" -> 7 [] i = "battery-80" -> 8
      [] i = "battery-90" -> 9 [] i = "battery-100" -> 10

\* red < bright red < yellow/orange < bright yellow < bright cyan < bright green
ColorRank(c) ==
    CASE c = "38;5;1" -> 0 [] c = "38;5;9" -> 1 [] c = "38;5;3" -> 2
      [] c = "38;5;11" -> 3 [] c = "38;5;14" -> 4 [] c = "38;5;10" -> 5

\* C12: for fractions p <= q the icon chosen for p is never a fuller bucket
\* than the one chosen for q and the color chosen for p never a healthier one.
C12_RampsMonotonic ==
    (out # None /\ Unwrap(arg)[1] <= Unwrap(arg)[2])
    => /\ IconRank(Unwrap(out).icon_p) <= IconRank(Unwrap(out).icon_q)
       /\ ColorRank(Unwrap(out).color_p) <= ColorRank(Unwrap(out).color_q)

C12_Witness ==
    /\ out # None
    /\ Unwrap(arg) = <<55, 65>>
    /\ Unwrap(out).icon_p = "battery-50"
    /\ Unwrap(out).icon_q = "battery-60"
    /\ Unwrap(out).color_p = "38;5;11"
    /\ Unwrap(out).color_q = "38;5;14"

\* C13: when the total is zero, the remaining fraction used for the icon,
\* the color and the remaining_pct metadata is a defined number in [0, 1].
C13_ZeroTotalGuarded ==
    (out # None /\ Unwrap(arg).data.daily_limit_usd = 0)
    => LET x == Unwrap(out).remaining_pct
       IN /\ x.kind = "num"
          /\ 0 <= x.num /\ x.num <= x.den
          /\ Unwrap(out).metadata.remaining_pct = PctText(x)
          /\ Unwrap(out).metadata.remaining_pct \notin {<<"N", "a", "N">>, <<"i", "n", "f">>}

\* C14: a well-formed settings file that sets only some of the keys
\* resolves to the file's value for every key it sets and to the default
\* for every key it leaves out.
C14_PartialSettingsMerged ==
    (out # None /\ Unwrap(arg) # None /\ Unwrap(Unwrap(arg)).wellformed)
    => LET t == Unwrap(Unwrap(arg)).table
           r == Unwrap(out)
           d == QuotaConfigDefault
       IN /\ r.api_url = IF t.api_url # None THEN Unwrap(t.api_url) ELSE d.api_url
          /\ r.cache_ttl = IF t.cache_ttl # None THEN Unwrap(t.cache_ttl) ELSE d.cache_ttl
          /\ r.timeout = IF t.timeout # None THEN Unwrap(t.timeout) ELSE d.timeout
          /\ r.show_requests = IF t.show_requests # None THEN Unwrap(t.show_requests)
                               ELSE d.show_requests
          /\ r.warning_threshold = IF t.warning_threshold # None
                                   THEN Unwrap(t.warning_threshold)
                                   ELSE d.warning_threshold

\* the amount, in tenths, that a text written by format_usd denotes
Denotes(t) ==
    LET j == ScanDigits(t, 1)
    IN IF t[Len(t)] = "k" THEN (NatVal(t, 1, j) * 10 + DigitVal(t[j + 1])) * 1000
       ELSE IF j <= Len(t) THEN NatVal(t, 1, j) * 10 + DigitVal(t[j + 1])
       ELSE NatVal(t, 1, j) * 10

\* digits, a point, one digit, and then the given suffix
OneDecimal(t, suffix) ==
    LET j == ScanDigits(t, 1)
    IN /\ j > 1
       /\ Len(t) = j + 1 + Len(suffix)
       /\ t[j] = "."
       /\ t[j + 1] \in Digit
       /\ SubSeq(t, j + 2, Len(t)) = suffix

\* the three ranges of the formatting rule, for the amount n in tenths
FormatShape(n, t) ==
    /\ n >= 10000 => /\ OneDecimal(t, <<"k">>)
                     /\ Denotes(t) - n <= 500 /\ n - Denotes(t) <= 500
    /\ (n >= 1000 /\ n < 10000) => /\ ScanDigits(t, 1) = Len(t) + 1
                                   /\ Denotes(t) - n <= 5 /\ n - Denotes(t) <= 5
    /\ n < 1000 => /\ OneDecimal(t, <<>>)
                   /\ Denotes(t) = n
    /\ n = 2500 => t = <<"2", "5", "0">>
    /\ n = 10000 => t = <<"1", ".", "0", "k">>

\* C15: the formatting rule, and with it: no amount below 1000 is written
\* as a text that denotes 1000 or more.
C15_FormatRule ==
    out # None
    => /\ FormatShape(Unwrap(arg), Unwrap(out))
       /\ Unwrap(arg) < 10000 => Denotes(Unwrap(out)) < 10000

\* C15, amended: the formatting rule; an amount below 999.5 is written as a
\* text that denotes less than 1000, an amount in [999.5, 1000) as "1000".
C15_FormatRuleRounding ==
    out # None
    => /\ FormatShape(Unwrap(arg), Unwrap(out))
       /\ Unwrap(arg) < 9995 => Denotes(Unwrap(out)) < 10000
       /\ (Unwrap(arg) >= 9995 /\ Unwrap(arg) < 10000)
            => Unwrap(out) = <<"1", "0", "0", "0">>

C15_Witness ==
    /\ out # None
    /\ Unwrap(arg) = 9995
    /\ Unwrap(out) = <<"1", "0", "0", "0">>

====
